---- MODULE Spec2Model ----
(***************************************************************************)
(* FaissRetriever of backend/app/agent_setup.py: build, save, load and     *)
(* search of a FAISS index over the chunks of a knowledge file, called by  *)
(* asyncio coroutines.  A coroutine runs without interruption from one     *)
(* await that really suspends (the embedding call of build and of search)  *)
(* to the next, so every action below is the code between two such awaits. *)
(* File input and output are synchronous.  The process may stop at any     *)
(* time; the artifact files and the knowledge file outlive it.             *)
(*                                                                         *)
(* Text is a sequence of tokens: the letters "a" and "b", the blank "_",   *)
(* the newline "N", and "S" for the literal text <---CHUNK_SEPARATOR--->.  *)
(***************************************************************************)
EXTENDS Integers, Sequences, FiniteSets, TLC

\* Number of coroutines that may call the retriever.
NumProcs == 2

\* Largest k passed to search().
MaxK == 2

Procs == 1..NumProcs

\* The white space str.strip() removes: blank, newline, carriage return.
White == {"_", "N", "R"}

\* Longest text handed to the chunking step on its own.
MaxLen == 7

\* ---------------------------------------------------------------- strings

\* Python s.startswith(sep, i-1) on 1-based positions.
MatchAt(s, sep, i) ==
  /\ i + Len(sep) - 1 <= Len(s)
  /\ SubSeq(s, i, i + Len(sep) - 1) = sep

\* Python s.find(sep) + 1: the first position where sep occurs, 0 if none.
Find(s, sep) ==
  LET hits == {i \in 1..Len(s) : MatchAt(s, sep, i)}
  IN IF hits = {} THEN 0 ELSE CHOOSE i \in hits : \A j \in hits : i <= j

RECURSIVE Split(_, _)
\* Python s.split(sep): left to right, occurrences do not overlap.
Split(s, sep) ==
  LET i == Find(s, sep)
  IN IF i = 0 THEN <<s>>
     ELSE <<SubSeq(s, 1, i - 1)>> \o Split(SubSeq(s, i + Len(sep), Len(s)), sep)

RECURSIVE LStrip(_)
LStrip(s) == IF s # <<>> /\ Head(s) \in White THEN LStrip(Tail(s)) ELSE s

RECURSIVE RStrip(_)
RStrip(s) ==
  IF s # <<>> /\ s[Len(s)] \in White THEN RStrip(SubSeq(s, 1, Len(s) - 1)) ELSE s

\* Python s.strip().
Strip(s) == RStrip(LStrip(s))

RECURSIVE Join(_, _)
\* Python sep.join(parts).
Join(sep, parts) ==
  IF parts = <<>> THEN <<>>
  ELSE IF Len(parts) = 1 THEN parts[1]
  ELSE parts[1] \o sep \o Join(sep, Tail(parts))

\* [chunk.strip() for chunk in pieces if chunk.strip()]
StripNonEmpty(pieces) ==
  SelectSeq([i \in 1..Len(pieces) |-> Strip(pieces[i])], LAMBDA c : c # <<>>)

ParagraphBreak == <<"N", "N">>

\* separator = "\n<---CHUNK_SEPARATOR--->\n"
Separator == <<"N", "S", "N">>

\* build(): content.split("\n\n"), stripped, empty ones dropped.
\* The split of build() without the strip of each piece.
Chunker_NoTrim(content) ==
  SelectSeq(Split(content, ParagraphBreak), LAMBDA c : c # <<>>)

Chunker(content) == StripNonEmpty(Split(content, ParagraphBreak))

\* save(): the text written to the text file.
SerializeChunks(chunks) == Join(Separator, chunks)

\* load(): the chunk list read back from the text file.
ParseChunks(content) == StripNonEmpty(Split(content, Separator))

\* search(): context = "\n\n".join(results)
JoinResults(results) == Join(ParagraphBreak, results)

\* ------------------------------------------------------------- embeddings

\* The embedding gateway is external.  It is deterministic; a vector is one
\* coordinate, the sum of the weights of the text's tokens.
Weight(tok) ==
  CASE tok = "a" -> 1
    [] tok = "b" -> 3
    [] tok = "S" -> 5
    [] OTHER -> 0

RECURSIVE Embed(_)
Embed(text) == IF text = <<>> THEN 0 ELSE Weight(Head(text)) + Embed(Tail(text))

\* generate_embeddings(texts): one vector per text, in order.
EmbedAll(texts) == [i \in 1..Len(texts) |-> Embed(texts[i])]

\* Squared L2 distance of IndexFlatL2.
Dist(v, q) == (v - q) * (v - q)

Min(x, y) == IF x <= y THEN x ELSE y

\* index.search(query, k): the possible label rows.  The first min(k, ntotal)
\* labels are distinct ordinals (0-based) of nearest vectors in ascending
\* distance, the rest are -1.  FAISS does not fix the order of equal
\* distances, so every order of a tie is a possible row.
FaissSearch(vecs, qv, k) ==
  LET n == Len(vecs)
      m == Min(k, n)
      d(o) == Dist(vecs[o + 1], qv)
  IN {r \in [1..k -> -1..(n - 1)] :
        /\ \A i \in 1..k : (i <= m) <=> (r[i] >= 0)
        /\ \A i, j \in 1..m : i < j => r[i] # r[j] /\ d(r[i]) <= d(r[j])
        /\ \A i \in 1..m : \A o \in 0..(n - 1) :
             (\A j \in 1..m : r[j] # o) => d(r[i]) <= d(o)}

\* The loop of search() with the test i < len(chunks) only: a -1 then indexes
\* the chunk list from its end.
RECURSIVE MapLabels_NoLowerBound(_, _)
MapLabels_NoLowerBound(labels, chunks) ==
  IF labels = <<>> THEN <<>>
  ELSE (IF Head(labels) < Len(chunks) /\ chunks # <<>>
          THEN <<chunks[IF Head(labels) >= 0 THEN Head(labels) + 1 ELSE Len(chunks)]>>
        ELSE <<>>)
       \o MapLabels_NoLowerBound(Tail(labels), chunks)

\* search(): for i in indices[0]: if 0 <= i < len(chunks): results.append(chunks[i])
RECURSIVE MapLabels(_, _)
MapLabels(labels, chunks) ==
  IF labels = <<>> THEN <<>>
  ELSE (IF 0 <= Head(labels) /\ Head(labels) < Len(chunks)
          THEN <<chunks[Head(labels) + 1]>> ELSE <<>>)
       \o MapLabels(Tail(labels), chunks)

\* ------------------------------------------------------------------ state

VARIABLES
  corpus,               \* the knowledge file: [readable, content]
  indexFile,            \* index artifact: [st: "absent" | "ok" | "corrupt", vecs, torn]
  textFile,             \* text artifact: [exists, content]
  index,                \* self.index: [held, vecs]; held = FALSE is None
  chunks_with_content,  \* self.chunks_with_content
  initialized,          \* self._initialized
  pc,                   \* per coroutine: "idle", "build_await", "query_await"
  frame,                \* per coroutine: the locals of its call in progress
  ret,                  \* what the call that returned in the last step did
  agent,                \* main.py, app.state.agent: "starting" | "set" | "none"
  faiss_index,          \* rag.py: the module's index, [held, vecs]
  text_chunks,          \* rag.py: the module's chunk list (None is <<>>)
  is_ready,             \* rag.py: the module's flag
  users_collection,     \* password_reset.py: the document of each email
  now,                  \* password_reset.py: datetime.utcnow(), in ticks
  issued,               \* the token of the latest reset request of each email
  conversations_collection \* conversation_logger.py: [connected, docs]

retrieverVars == <<corpus, indexFile, textFile, index, chunks_with_content,
                   initialized, pc, frame>>

ragVars == <<faiss_index, text_chunks, is_ready>>

resetVars == <<users_collection, now, issued>>

vars == <<corpus, indexFile, textFile, index, chunks_with_content,
          initialized, pc, frame, ret, agent, faiss_index, text_chunks, is_ready,
          users_collection, now, issued, conversations_collection>>

None == [held |-> FALSE, vecs |-> <<>>]

IndexOf(vecs) == [held |-> TRUE, vecs |-> vecs]

\* torn records that the file was left by a save() that did not reach the end.
AbsentIndexFile == [st |-> "absent", vecs |-> <<>>, torn |-> FALSE]

CorruptIndexFile == [st |-> "corrupt", vecs |-> <<>>, torn |-> TRUE]

IndexFileOf(vecs, torn) == [st |-> "ok", vecs |-> vecs, torn |-> torn]

AbsentTextFile == [exists |-> FALSE, content |-> <<>>]

TextFileOf(content) == [exists |-> TRUE, content |-> content]

MissingCorpus == [readable |-> FALSE, content |-> <<>>]

CorpusOf(content) == [readable |-> TRUE, content |-> content]

\* The knowledge files the operator may install.
Corpora ==
  { MissingCorpus,
    CorpusOf(<<"a", "N", "N", "b">>),            \* two paragraphs
    CorpusOf(<<"b", "N", "N", "a", "N">>),       \* the same two, swapped
    CorpusOf(<<"a">>),                           \* one paragraph
    CorpusOf(<<"a", "N", "S", "N", "N", "b">>),  \* a paragraph ending in a separator line
    CorpusOf(<<"a", "N", "S", "N", "b">>),       \* a separator line inside a paragraph
    CorpusOf(<<"_", "N", "N", "N">>) }           \* blank: no paragraph

\* The queries callers may ask: one nearest to "a", one as far from "a" as
\* from "b".
Queries == { <<"a">>, <<"a", "_", "a">> }

NoFrame ==
  [op |-> "none", init |-> "none", via |-> "none", why |-> "none",
   lvecs |-> 0, lchunks |-> 0, chunks |-> <<>>, q |-> <<>>, k |-> 0, eff |-> {},
   found |-> "none", labels |-> <<>>, before |-> <<>>]

NoRet ==
  [op |-> "none", init |-> "none", via |-> "none", why |-> "none",
   lvecs |-> 0, lchunks |-> 0, kind |-> "none", k |-> 0, read |-> <<>>,
   results |-> <<>>, value |-> <<>>, eff |-> {}, found |-> "none", labels |-> <<>>,
   before |-> <<>>, q |-> <<>>]

NotInitializedMsg == <<"Error: FAISS index or embedding service is not initialized.">>

NoRelevantMsg == <<"No relevant information found in the knowledge base.">>

SearchErrorMsg == <<"Error occurred during knowledge base search.">>

\* The state outside the retriever.
appVars == <<agent, faiss_index, text_chunks, is_ready, users_collection, now,
             issued, conversations_collection>>

\* The addresses of the password reset runs; all are well-formed.
Emails == {"u@x.io", "v@x.io"}

\* A field a document of db.users lacks: a digest, a time.
Unset == <<"unset">>

NoExpiry == -1

\* A document of db.users.
NoUser == [exists |-> FALSE, password_hash |-> Unset,
           reset_token_hash |-> Unset, reset_token_expiry |-> NoExpiry]

NoConversations == [connected |-> TRUE, docs |-> <<>>]

\* The modules as imported, before the application has started.
AppIdle ==
  /\ agent = "starting"
  /\ faiss_index = None
  /\ text_chunks = <<>>
  /\ is_ready = FALSE
  /\ users_collection = [e \in Emails |-> NoUser]
  /\ now = 0
  /\ issued = [e \in Emails |-> "none"]
  /\ conversations_collection = NoConversations

\* __init__ on a first deployment: no artifact yet, any knowledge file.
Init ==
  /\ AppIdle
  /\ corpus \in Corpora
  /\ indexFile = AbsentIndexFile
  /\ textFile = AbsentTextFile
  /\ index = None
  /\ chunks_with_content = <<>>
  /\ initialized = FALSE
  /\ pc = [p \in Procs |-> "idle"]
  /\ frame = [p \in Procs |-> NoFrame]
  /\ ret = NoRet

\* ----------------------------------------------------------- the retriever

\* The summary of a call that returns: what initialize() did inside it
\* (init, via, why, which artifact files it found, the sizes of the pair its
\* load read, the chunk list its build read), what search() returned (kind,
\* the labels of the index query, results, value) and the files and gateway
\* calls it made (eff).
RetOf(p, fr, kind, results, value) ==
  [op |-> fr.op, init |-> fr.init, via |-> fr.via, why |-> fr.why,
   lvecs |-> fr.lvecs, lchunks |-> fr.lchunks, kind |-> kind, k |-> fr.k, read |-> fr.chunks, results |-> results,
   value |-> value, eff |-> fr.eff, found |-> fr.found, labels |-> fr.labels,
   before |-> fr.before, q |-> fr.q]

Return(p, r) ==
  /\ pc' = [pc EXCEPT ![p] = "idle"]
  /\ frame' = [frame EXCEPT ![p] = NoFrame]
  /\ ret' = r

\* search() that asks for the embedding of the query before its index test.
AfterInitialize_EmbedBeforeIndexTest(p, fr, idx) ==
  IF fr.op = "initialize"
    THEN Return(p, RetOf(p, fr, "none", <<>>, <<>>))
  ELSE IF ~idx.held
    THEN Return(p, RetOf(p, [fr EXCEPT !.eff = @ \cup {"embed_query"}],
                         "not_initialized", <<>>, NotInitializedMsg))
  ELSE /\ pc' = [pc EXCEPT ![p] = "query_await"]
       /\ frame' = [frame EXCEPT ![p] = [fr EXCEPT !.eff = @ \cup {"embed_query"}]]
       /\ ret' = NoRet

\* Where the call goes once initialize() is over (or was not needed):
\* initialize() returns; search() goes on with its index test and, if an
\* index is held, awaits the embedding of the query.
AfterInitialize(p, fr, idx) ==
  IF fr.op = "initialize"
    THEN Return(p, RetOf(p, fr, "none", <<>>, <<>>))
  ELSE IF ~idx.held
    THEN Return(p, RetOf(p, fr, "not_initialized", <<>>, NotInitializedMsg))
  ELSE /\ pc' = [pc EXCEPT ![p] = "query_await"]
       /\ frame' = [frame EXCEPT ![p] = [fr EXCEPT !.eff = @ \cup {"embed_query"}]]
       /\ ret' = NoRet

\* build() up to its await.  idx and chunks are self.index and
\* self.chunks_with_content as the caller left them.  An exception (the
\* knowledge file cannot be opened) is caught and build() returns; so does
\* an empty chunk list, after it was assigned.  initialize() then sets the flag.
RunBuild(p, fr, idx, chunks) ==
  IF ~corpus.readable
    THEN /\ index' = idx
         /\ chunks_with_content' = chunks
         /\ initialized' = TRUE
         /\ AfterInitialize(p, [fr EXCEPT !.init = "build_failed", !.why = "no_corpus"], idx)
  ELSE LET cs == Chunker(corpus.content)
           fr1 == [fr EXCEPT !.eff = @ \cup {"read_corpus"}, !.chunks = cs,
                             !.before = chunks]
       IN IF cs = <<>>
            THEN /\ index' = idx
                 /\ chunks_with_content' = cs
                 /\ initialized' = TRUE
                 /\ AfterInitialize(p, [fr1 EXCEPT !.init = "build_failed",
                                                  !.why = "empty_corpus"], idx)
          ELSE /\ index' = idx
               /\ chunks_with_content' = cs
               /\ initialized' = initialized
               /\ pc' = [pc EXCEPT ![p] = "build_await"]
               /\ frame' = [frame EXCEPT ![p] = [fr1 EXCEPT !.eff = @ \cup {"embed_chunks"}]]
               /\ ret' = NoRet

\* load(): the test that raises ValueError.  A FAISS index object is truthy.
LoadCheckFails(chunks, idx) == chunks = <<>> \/ Len(chunks) # Len(idx.vecs)

\* load(): what faiss.read_index and the split of the text file yield.
Loaded(ifile, tfile) ==
  [index |-> IndexOf(ifile.vecs), chunks |-> ParseChunks(tfile.content)]

\* load() that opens the knowledge file as well when the pair passes its test.
RunLoad_ReadsCorpus(p, fr) ==
  IF indexFile.st = "corrupt"
    THEN RunBuild(p, [fr EXCEPT !.via = "rejected", !.eff = @ \cup {"read_index"}],
                  index, chunks_with_content)
  ELSE LET got == Loaded(indexFile, textFile)
           fr1 == [fr EXCEPT !.eff = @ \cup {"read_index", "read_text"},
                             !.lvecs = Len(got.index.vecs),
                             !.lchunks = Len(got.chunks)]
       IN IF LoadCheckFails(got.chunks, got.index)
            THEN RunBuild(p, [fr1 EXCEPT !.via = "rejected"], got.index, got.chunks)
          ELSE /\ index' = got.index
               /\ chunks_with_content' = got.chunks
               /\ initialized' = TRUE
               /\ AfterInitialize(p, [fr1 EXCEPT !.init = "loaded",
                                                 !.eff = @ \cup {"read_corpus"}], got.index)

\* load().  self.index and self.chunks_with_content are assigned before the
\* test; an unreadable index file raises before either assignment.  Any
\* exception leads to build().
RunLoad(p, fr) ==
  IF indexFile.st = "corrupt"
    THEN RunBuild(p, [fr EXCEPT !.via = "rejected", !.eff = @ \cup {"read_index"}],
                  index, chunks_with_content)
  ELSE LET got == Loaded(indexFile, textFile)
           fr1 == [fr EXCEPT !.eff = @ \cup {"read_index", "read_text"},
                             !.lvecs = Len(got.index.vecs),
                             !.lchunks = Len(got.chunks)]
       IN IF LoadCheckFails(got.chunks, got.index)
            THEN RunBuild(p, [fr1 EXCEPT !.via = "rejected"], got.index, got.chunks)
          ELSE /\ index' = got.index
               /\ chunks_with_content' = got.chunks
               /\ initialized' = TRUE
               /\ AfterInitialize(p, [fr1 EXCEPT !.init = "loaded"], got.index)

\* initialize(): which of the two artifact files os.path.exists finds.
Found ==
  IF indexFile.st # "absent"
    THEN (IF textFile.exists THEN "both" ELSE "index")
  ELSE (IF textFile.exists THEN "text" ELSE "neither")

\* initialize() without its test of the flag.
RunInitialize_NoFlagTest(p, fr) ==
  IF indexFile.st # "absent" /\ textFile.exists
    THEN RunLoad(p, [fr EXCEPT !.found = Found])
  ELSE RunBuild(p, [fr EXCEPT !.via = "absent", !.found = Found],
                index, chunks_with_content)

\* initialize(), entered by coroutine p whose call has frame fr.
RunInitialize(p, fr) ==
  IF initialized
    THEN /\ UNCHANGED <<index, chunks_with_content, initialized>>
         /\ AfterInitialize(p, [fr EXCEPT !.init = "noop"], index)
  ELSE IF indexFile.st # "absent" /\ textFile.exists
    THEN RunLoad(p, [fr EXCEPT !.found = Found])
  ELSE RunBuild(p, [fr EXCEPT !.via = "absent", !.found = Found],
                index, chunks_with_content)

\* save() that writes the index file and leaves the text file as it was.
Save_IndexFileOnly(idx, chunks) ==
  IF ~idx.held
    THEN [indexFile |-> indexFile, textFile |-> textFile]
  ELSE [indexFile |-> IndexFileOf(idx.vecs, FALSE), textFile |-> textFile]

\* save() that stops after faiss.write_index and leaves the text file as it
\* was found.
Save_KeepsTextFile(idx, chunks) ==
  IF ~idx.held
    THEN [indexFile |-> indexFile, textFile |-> textFile]
  ELSE [indexFile |-> IndexFileOf(idx.vecs, FALSE),
        textFile |-> IF textFile.exists THEN textFile ELSE TextFileOf(<<>>)]

\* save(): both files as written from self.index and self.chunks_with_content.
Save(idx, chunks) ==
  IF ~idx.held
    THEN [indexFile |-> indexFile, textFile |-> textFile]
  ELSE [indexFile |-> IndexFileOf(idx.vecs, FALSE),
        textFile |-> TextFileOf(SerializeChunks(chunks))]

\* A coroutine calls initialize().
InitializeCall(p) ==
  /\ pc[p] = "idle"
  /\ RunInitialize(p, [NoFrame EXCEPT !.op = "initialize"])
  /\ UNCHANGED <<corpus, indexFile, textFile>>

\* A coroutine calls search(query, k).
SearchCall(p, q, k) ==
  /\ pc[p] = "idle"
  /\ LET fr == [NoFrame EXCEPT !.op = "search", !.q = q, !.k = k]
     IN IF ~initialized
          THEN RunInitialize(p, fr)
        ELSE /\ UNCHANGED <<index, chunks_with_content, initialized>>
             /\ AfterInitialize(p, fr, index)
  /\ UNCHANGED <<corpus, indexFile, textFile>>

\* The embedding call of build() returns: with vectors (ok) or by raising.
\* With vectors, the index is built from them and save() writes both files;
\* either way build() returns and initialize() sets the flag.
BuildResume(p, ok) ==
  /\ pc[p] = "build_await"
  /\ initialized' = TRUE
  /\ UNCHANGED <<corpus, chunks_with_content>>
  /\ IF ok
       THEN LET idx == IndexOf(EmbedAll(frame[p].chunks))
                saved == Save(idx, chunks_with_content)
            IN /\ index' = idx
               /\ indexFile' = saved.indexFile
               /\ textFile' = saved.textFile
               /\ AfterInitialize(p, [frame[p] EXCEPT !.init = "built",
                     !.eff = @ \cup {"write_index", "write_text"}], idx)
     ELSE /\ UNCHANGED <<index, indexFile, textFile>>
          /\ AfterInitialize(p, [frame[p] EXCEPT !.init = "build_failed",
                                                 !.why = "embed_failed"], index)

\* The embedding call of build() returns vectors that are not all of one
\* length: np.array(embeddings, dtype="float32") raises, build() catches it
\* and returns, and initialize() sets the flag.
BuildResumeRagged(p) ==
  /\ pc[p] = "build_await"
  /\ initialized' = TRUE
  /\ UNCHANGED <<corpus, chunks_with_content, index, indexFile, textFile>>
  /\ AfterInitialize(p, [frame[p] EXCEPT !.init = "build_failed",
                                         !.why = "dimension_mismatch"], index)

\* The embedding call of search() returns: with a vector (ok) or by raising.
\* The index and the chunk list are read now, after the await.
QueryResume(p, ok) ==
  /\ pc[p] = "query_await"
  /\ UNCHANGED <<corpus, indexFile, textFile, index, chunks_with_content, initialized>>
  /\ IF ~ok
       THEN Return(p, RetOf(p, frame[p], "search_error", <<>>, SearchErrorMsg))
     ELSE \E labels \in FaissSearch(index.vecs, Embed(frame[p].q), frame[p].k) :
            LET results == MapLabels(labels, chunks_with_content)
                fr == [frame[p] EXCEPT !.labels = labels]
            IN IF results = <<>>
                 THEN Return(p, RetOf(p, fr, "sentinel", <<>>, NoRelevantMsg))
               ELSE Return(p, RetOf(p, fr, "text", results, JoinResults(results)))

\* The memory of a process that stopped and was started again: __init__.
Restarted ==
  /\ index' = None
  /\ chunks_with_content' = <<>>
  /\ initialized' = FALSE
  /\ pc' = [p \in Procs |-> "idle"]
  /\ frame' = [p \in Procs |-> NoFrame]
  /\ ret' = NoRet

\* The process stops between two steps and is started again.
Crash ==
  /\ Restarted
  /\ UNCHANGED <<corpus, indexFile, textFile>>

\* The process stops inside save(): while faiss.write_index writes
\* ("in_write_index"), after it and before the text file is opened
\* ("after_write_index"), or after the text file was opened for writing and
\* before anything was written ("in_write_text").
CrashInSave(p, point) ==
  /\ pc[p] = "build_await"
  /\ indexFile' = IF point = "in_write_index" THEN CorruptIndexFile
                  ELSE IndexFileOf(EmbedAll(frame[p].chunks), TRUE)
  /\ textFile' = IF point = "in_write_text" THEN TextFileOf(<<>>) ELSE textFile
  /\ Restarted
  /\ UNCHANGED corpus

\* The operator replaces, removes or restores the knowledge file.
EditCorpus(c) ==
  /\ corpus # c
  /\ corpus' = c
  /\ ret' = NoRet
  /\ UNCHANGED <<indexFile, textFile, index, chunks_with_content, initialized, pc, frame>>

CrashPoints == {"in_write_index", "after_write_index", "in_write_text"}

\* No call is in progress.
Quiet == \A p \in Procs : pc[p] = "idle"

\* Callers that await each call before the next one is made.
NextAwaited ==
  \/ UNCHANGED appVars /\ \E p \in Procs : Quiet /\ InitializeCall(p)
  \/ UNCHANGED appVars /\ \E p \in Procs : \E q \in Queries : \E k \in 1..MaxK : Quiet /\ SearchCall(p, q, k)
  \/ UNCHANGED appVars /\ \E p \in Procs : \E ok \in BOOLEAN : BuildResume(p, ok)
  \/ UNCHANGED appVars /\ \E p \in Procs : BuildResumeRagged(p)
  \/ UNCHANGED appVars /\ \E p \in Procs : \E ok \in BOOLEAN : QueryResume(p, ok)
  \/ UNCHANGED appVars /\ \E p \in Procs : \E point \in CrashPoints : CrashInSave(p, point)
  \/ UNCHANGED appVars /\ Crash
  \/ UNCHANGED appVars /\ \E c \in Corpora : EditCorpus(c)

Spec == Init /\ [][NextAwaited]_vars

\* The knowledge files and queries of the runs with concurrent callers.
ConcurrentCorpora == {c \in Corpora : c.content \in {<<"a", "N", "N", "b">>, <<"a">>}}

ConcurrentQueries == { <<"a">> }

\* Callers that call while other calls are suspended at an await.
NextConcurrent ==
  \/ UNCHANGED appVars /\ \E p \in Procs : InitializeCall(p)
  \/ UNCHANGED appVars /\ \E p \in Procs : \E q \in ConcurrentQueries : \E k \in 1..MaxK : SearchCall(p, q, k)
  \/ UNCHANGED appVars /\ \E p \in Procs : \E ok \in BOOLEAN : BuildResume(p, ok)
  \/ UNCHANGED appVars /\ \E p \in Procs : BuildResumeRagged(p)
  \/ UNCHANGED appVars /\ \E p \in Procs : \E ok \in BOOLEAN : QueryResume(p, ok)
  \/ UNCHANGED appVars /\ \E p \in Procs : \E point \in CrashPoints : CrashInSave(p, point)
  \/ UNCHANGED appVars /\ Crash
  \/ UNCHANGED appVars /\ \E c \in ConcurrentCorpora : EditCorpus(c)

InitConcurrent == Init /\ corpus \in ConcurrentCorpora

SpecConcurrent == InitConcurrent /\ [][NextConcurrent]_vars

\* ------------------------------------------------- the chunking step alone

\* content.replace('\r\n', '\n') of chunk_text().
RECURSIVE Normalize(_)
Normalize(s) ==
  IF Len(s) < 2 THEN s
  ELSE IF s[1] = "R" /\ s[2] = "N"
    THEN <<"N">> \o Normalize(SubSeq(s, 3, Len(s)))
  ELSE <<s[1]>> \o Normalize(Tail(s))

\* chunk_text() of rag.py: normalize the line ends, split on the paragraph
\* break, strip each piece, drop the empty ones.
ChunkText(content) == StripNonEmpty(Split(Normalize(content), ParagraphBreak))

Alphabet == {"a", "b", "_", "N", "R"}

\* Every text of at most n characters.
Texts(n) == UNION {[1..m -> Alphabet] : m \in 0..n}

\* The chunking lines of build() applied to the text read from the corpus.
ChunkCorpus ==
  /\ ret.op = "none"
  /\ ret' = [NoRet EXCEPT !.op = "chunk", !.read = Chunker(corpus.content)]
  /\ UNCHANGED <<corpus, indexFile, textFile, index, chunks_with_content,
                 initialized, pc, frame>>

\* chunk_text() applied to the decoded text of an upload.
ChunkUpload ==
  /\ ret.op = "none"
  /\ ret' = [NoRet EXCEPT !.op = "chunk_text", !.read = ChunkText(corpus.content)]
  /\ UNCHANGED <<corpus, indexFile, textFile, index, chunks_with_content,
                 initialized, pc, frame>>

InitChunker ==
  /\ AppIdle
  /\ corpus \in {CorpusOf(s) : s \in Texts(MaxLen)}
  /\ indexFile = AbsentIndexFile
  /\ textFile = AbsentTextFile
  /\ index = None
  /\ chunks_with_content = <<>>
  /\ initialized = FALSE
  /\ pc = [p \in Procs |-> "idle"]
  /\ frame = [p \in Procs |-> NoFrame]
  /\ ret = NoRet

NextChunker ==
  \/ UNCHANGED appVars /\ ChunkCorpus
  \/ UNCHANGED appVars /\ ChunkUpload

SpecChunker == InitChunker /\ [][NextChunker]_vars

\* ------------------------------------------------ the application (main.py)

\* lifespan() calls setup_agent(): the embedding and chat services are created
\* (either may raise, and lifespan then stores None), then a new FaissRetriever
\* is created and its initialize() awaited.
SetupAgent(p, ok) ==
  /\ agent = "starting"
  /\ UNCHANGED <<faiss_index, text_chunks, is_ready, users_collection, now,
                 issued, conversations_collection>>
  /\ IF ok
       THEN /\ agent' = "initializing"
            /\ InitializeCall(p)
     ELSE /\ agent' = "none"
          /\ ret' = [NoRet EXCEPT !.op = "lifespan", !.kind = "none"]
          /\ UNCHANGED retrieverVars

\* initialize() has returned to setup_agent() (it never raises). The rest of
\* setup_agent() reads the prompt and builds the agent (ok) or raises;
\* lifespan() stores the agent or None and the application starts serving.
Lifespan(ok) ==
  /\ agent = "initializing"
  /\ Quiet
  /\ agent' = IF ok THEN "set" ELSE "none"
  /\ ret' = [NoRet EXCEPT !.op = "lifespan", !.kind = agent']
  /\ UNCHANGED retrieverVars
  /\ UNCHANGED <<faiss_index, text_chunks, is_ready, users_collection, now,
                 issued, conversations_collection>>

\* GET /health once the application serves.
health_check ==
  /\ agent \in {"set", "none"}
  /\ ret' = [NoRet EXCEPT !.op = "health",
                          !.kind = IF agent # "none" THEN "ready" ELSE "not_loaded"]
  /\ UNCHANGED retrieverVars
  /\ UNCHANGED appVars

\* The conversations a run logs at most.
MaxLogged == 2

\* The messages users send, and what payload.session_id holds.
Messages == {<<"hi">>}

Sessions == {"s1", "none"}

\* What agent.invoke() streams back for a message.
AgentResponse(message) == <<"answer to">> \o message

\* The document log_conversation() stores for a turn.
ConversationDoc(message, response, history, session_id) ==
  [user_message |-> message, agent_response |-> response,
   full_history |-> history, session_id |-> session_id]

\* ConversationLogger.log_conversation() that lets a failure propagate.
log_conversation_Raises(doc, insertOk) ==
  IF conversations_collection.connected /\ insertOk
    THEN [raised |-> FALSE, docs |-> Append(conversations_collection.docs, doc),
          id |-> <<"id", Len(conversations_collection.docs) + 1>>]
  ELSE [raised |-> TRUE, docs |-> conversations_collection.docs, id |-> <<"None">>]

\* ConversationLogger.log_conversation(): None when the collection is None,
\* the inserted id when insert_one() returns (insertOk), None when anything
\* in the try block raises. [raised, docs, id]
log_conversation(doc, insertOk) ==
  IF ~conversations_collection.connected
    THEN [raised |-> FALSE, docs |-> conversations_collection.docs, id |-> <<"None">>]
  ELSE IF insertOk
    THEN [raised |-> FALSE, docs |-> Append(conversations_collection.docs, doc),
          id |-> <<"id", Len(conversations_collection.docs) + 1>>]
  ELSE [raised |-> FALSE, docs |-> conversations_collection.docs, id |-> <<"None">>]

ChatReply(message, status, response, history, session_id, log_id) ==
  [op |-> "chat_with_agent", message |-> message, status |-> status,
   response |-> response, history |-> history, session_id |-> session_id,
   log_id |-> log_id]

\* POST /chat of main.py once the application serves: 500 without an agent;
\* the agent is invoked (invokeOk: it answers; the searches it makes while
\* invoked are the SearchCall steps), the turn is logged, and the response,
\* the history and the session id are returned; anything raised inside the
\* try block gives 500.
chat_with_agent(message, session, invokeOk, insertOk) ==
  /\ agent \in {"set", "none"}
  /\ Len(conversations_collection.docs) < MaxLogged
  /\ UNCHANGED retrieverVars
  /\ UNCHANGED <<agent, faiss_index, text_chunks, is_ready, users_collection, now, issued>>
  /\ LET session_id == IF session = "none" THEN "uuid4" ELSE session
         response == AgentResponse(message)
         history == <<[role |-> "user", content |-> message],
                      [role |-> "assistant", content |-> response]>>
         log == log_conversation(
                  ConversationDoc(message, response, history, session_id), insertOk)
     IN IF agent = "none" \/ ~invokeOk
          THEN /\ ret' = ChatReply(message, 500, <<>>, <<>>, "none", <<"not called">>)
               /\ UNCHANGED conversations_collection
        ELSE /\ conversations_collection' = [conversations_collection EXCEPT !.docs = log.docs]
             /\ ret' = IF log.raised
                         THEN ChatReply(message, 500, <<>>, <<>>, "none", <<"raised">>)
                       ELSE ChatReply(message, 200, response, history, session_id, log.id)

\* The process is started again: lifespan() runs anew.
StartAgain == agent' = "starting" /\ UNCHANGED <<faiss_index, text_chunks,
  is_ready, users_collection, now, issued, conversations_collection>>

\* The application: startup, then the agent's searches and health requests.
NextApp ==
  \/ \E p \in Procs : \E ok \in BOOLEAN : SetupAgent(p, ok)
  \/ \E ok \in BOOLEAN : Lifespan(ok)
  \/ health_check
  \/ \E message \in Messages : \E session \in Sessions : \E invokeOk, insertOk \in BOOLEAN :
       chat_with_agent(message, session, invokeOk, insertOk)
  \/ UNCHANGED appVars /\ \E p \in Procs : \E q \in Queries : \E k \in 1..MaxK :
       agent = "set" /\ Quiet /\ SearchCall(p, q, k)
  \/ UNCHANGED appVars /\ \E p \in Procs : \E ok \in BOOLEAN : BuildResume(p, ok)
  \/ UNCHANGED appVars /\ \E p \in Procs : BuildResumeRagged(p)
  \/ UNCHANGED appVars /\ \E p \in Procs : \E ok \in BOOLEAN : QueryResume(p, ok)
  \/ StartAgain /\ \E p \in Procs : \E point \in CrashPoints : CrashInSave(p, point)
  \/ StartAgain /\ Crash
  \/ UNCHANGED appVars /\ \E c \in Corpora : EditCorpus(c)

\* A first deployment, with the conversations database reachable or not when
\* conversation_logger is imported.
InitApp ==
  /\ corpus \in Corpora
  /\ indexFile = AbsentIndexFile
  /\ textFile = AbsentTextFile
  /\ index = None
  /\ chunks_with_content = <<>>
  /\ initialized = FALSE
  /\ pc = [p \in Procs |-> "idle"]
  /\ frame = [p \in Procs |-> NoFrame]
  /\ ret = NoRet
  /\ agent = "starting"
  /\ faiss_index = None
  /\ text_chunks = <<>>
  /\ is_ready = FALSE
  /\ users_collection = [e \in Emails |-> NoUser]
  /\ now = 0
  /\ issued = [e \in Emails |-> "none"]
  /\ conversations_collection \in {[NoConversations EXCEPT !.connected = c] : c \in BOOLEAN}

SpecApp == InitApp /\ [][NextApp]_vars

\* --------------------------------------------- the upload service (rag.py)

\* len(content) < 10 of upload_file().
MinUploadLen == 10

\* len(request.question.strip()) < 3 of chat().
MinQuestionLen == 3

Rep(c, n) == [i \in 1..n |-> c]

\* An uploaded file: its name ends in .txt or not, its bytes decode as UTF-8
\* or not, and the decoded text.
FileOf(txt, utf8, content) == [txt |-> txt, utf8 |-> utf8, content |-> content]

\* The files clients upload: one paragraph, two paragraphs, ten blanks, texts
\* of 4 and of 9 characters, a file that is not .txt, bytes that do not decode.
Uploads ==
  { FileOf(TRUE, TRUE, Rep("a", 10)),
    FileOf(TRUE, TRUE, Rep("a", 4) \o <<"N", "N">> \o Rep("b", 4)),
    FileOf(TRUE, TRUE, Rep("_", 10)),
    FileOf(TRUE, TRUE, Rep("a", 4)),
    FileOf(TRUE, TRUE, Rep("a", 4) \o <<"N", "N">> \o Rep("b", 3)),
    FileOf(FALSE, TRUE, Rep("a", 10)),
    FileOf(TRUE, FALSE, <<>>) }

\* The questions clients ask; the second is too short for chat().
Questions == { <<"a", "a", "a">>, <<"_", "a", "_">> }

\* str(e) of the HTTPException that the handler's own except clause caught.
StrOfHTTPException(status, detail) == <<"str", status, detail>>

RagState == [faiss_index |-> faiss_index, text_chunks |-> text_chunks,
             is_ready |-> is_ready]

UploadResponse(f, status, detail) ==
  [op |-> "upload", file |-> f, status |-> status, detail |-> detail,
   before |-> RagState]

\* POST /upload. The name test stands before the try block; everything from
\* file.read() on is inside it, under "except UnicodeDecodeError" (400) and
\* "except Exception" (500, detail str(e)). text_chunks is assigned as soon as
\* the text is chunked; faiss_index and is_ready only after the embeddings
\* (embOk: the embedding service answers) and the index are there. An empty
\* chunk list gives an array without a second dimension, and
\* build_faiss_index() raises on embeddings.shape[1].
upload_file(f, embOk) ==
  /\ UNCHANGED retrieverVars
  /\ UNCHANGED <<agent, users_collection, now, issued, conversations_collection>>
  /\ IF ~f.txt
       THEN /\ ret' = UploadResponse(f, 400, "Only .txt files are supported")
            /\ UNCHANGED ragVars
     ELSE IF ~f.utf8
       THEN /\ ret' = UploadResponse(f, 400, "File encoding error")
            /\ UNCHANGED ragVars
     ELSE IF Len(f.content) < MinUploadLen
       THEN /\ ret' = UploadResponse(f, 500,
                        StrOfHTTPException(400, "File content is too short"))
            /\ UNCHANGED ragVars
     ELSE LET chunks == ChunkText(f.content)
          IN /\ text_chunks' = chunks
             /\ IF chunks # <<>> /\ ~embOk
                  THEN /\ ret' = UploadResponse(f, 500, "embedding error")
                       /\ UNCHANGED <<faiss_index, is_ready>>
                ELSE IF chunks = <<>>
                  THEN /\ ret' = UploadResponse(f, 500, "tuple index out of range")
                       /\ UNCHANGED <<faiss_index, is_ready>>
                ELSE /\ faiss_index' = IndexOf(EmbedAll(chunks))
                     /\ is_ready' = TRUE
                     /\ ret' = UploadResponse(f, 200, "success")

ChatResponse(q, status, sources) ==
  [op |-> "chat", question |-> q, status |-> status, sources |-> sources,
   before |-> RagState]

\* POST /chat with search_faiss() inlined: the two tests before the try block,
\* the query embedding (embOk), the index search, the chunks of the labels in
\* range, the answer of the model (llmOk).
chat(q, k, embOk, llmOk) ==
  /\ UNCHANGED retrieverVars
  /\ UNCHANGED appVars
  /\ IF ~is_ready \/ Len(Strip(q)) < MinQuestionLen
       THEN ret' = ChatResponse(q, 400, <<>>)
     ELSE IF ~embOk
       THEN ret' = ChatResponse(q, 500, <<>>)
     ELSE \E labels \in FaissSearch(faiss_index.vecs, Embed(q), k) :
            LET retrieved == MapLabels(labels, text_chunks)
            IN IF retrieved # <<>> /\ ~llmOk
                 THEN ret' = ChatResponse(q, 500, <<>>)
               ELSE ret' = ChatResponse(q, 200, retrieved)

NextRag ==
  \/ \E f \in Uploads : \E embOk \in BOOLEAN : upload_file(f, embOk)
  \/ \E q \in Questions : \E k \in 1..MaxK : \E embOk, llmOk \in BOOLEAN :
       chat(q, k, embOk, llmOk)

InitRag == Init /\ corpus = MissingCorpus

SpecRag == InitRag /\ [][NextRag]_vars

\* ------------------------------------- password reset (password_reset.py)

\* timedelta(hours=1), in ticks of the clock.
Hour == 2

\* The last tick of the clock in the runs.
MaxTime == 4

\* len(new_password) < 8 of verify_and_reset_password().
MinPasswordLen == 8

\* The addresses callers pass: the well-formed ones and one without "@".
Addresses == Emails \cup {"nobody"}

\* "@" in email and "." in email.
WellFormed(email) == email \in Emails

\* The values secrets.token_urlsafe(32) may return.
Tokens == {"t1", "t2", "t3"}

\* The passwords callers choose: 7, 8 and 9 characters.
Passwords == {Rep("p", 7), Rep("p", 8), Rep("q", 9)}

\* hashlib.sha256(x.encode()).hexdigest(): different texts, different digests.
Sha256(x) == <<"sha256", x>>

\* The document of an account as it was registered.
UserOf(password) == [NoUser EXCEPT !.exists = TRUE, !.password_hash = Sha256(password)]

InvalidFormatMsg == <<"Invalid email address format. Please provide a valid email.">>

NoAccountMsg(email) ==
  <<"If an account exists with ", email,
    ", a password reset link has been sent. Please check your inbox.">>

LinkSentMsg(email) ==
  <<"A password reset link has been successfully sent to ", email,
    ". The link will expire in 1 hour. Please check your inbox and spam folder.">>

SendFailedMsg ==
  <<"We encountered an error sending the reset email. Please try again later or contact support.">>

RequestErrorMsg ==
  <<"An error occurred while processing your password reset request. Please try again later.">>

InvalidLinkMsg == <<"Invalid or expired reset link. Please request a new password reset.">>

ExpiredLinkMsg == <<"This reset link has expired. Please request a new password reset.">>

PasswordTooShortMsg == <<"Password must be at least 8 characters long.">>

PasswordResetMsg ==
  <<"Your password has been successfully reset. You can now log in with your new password.">>

VerifyErrorMsg == <<"An error occurred while resetting your password. Please try again.">>

\* The string request_password_reset(email) returns when the database
\* answers: exists says whether find_one() found the account, sent what
\* send_reset_email() returned.
RequestMessage(email, exists, sent) ==
  IF ~WellFormed(email) THEN InvalidFormatMsg
  ELSE IF ~exists THEN NoAccountMsg(email)
  ELSE IF sent THEN LinkSentMsg(email)
  ELSE SendFailedMsg

ResetResponse(op, email, token, password, value) ==
  [op |-> op, email |-> email, token |-> token, new_password |-> password,
   value |-> value, before |-> users_collection, issued |-> issued, at |-> now,
   existed |-> email \in Emails /\ users_collection[email].exists,
   sent |-> FALSE, dbOk |-> TRUE]

\* request_password_reset(email). token is what token_urlsafe() returns (never
\* a token that is still stored), sent what send_reset_email() returns, dbOk
\* whether the database calls return; when find_one() raises, nothing was
\* written yet.
request_password_reset(email, token, sent, dbOk) ==
  /\ \A e \in Emails : issued[e] # token
  /\ LET exists == WellFormed(email) /\ users_collection[email].exists
         value == IF WellFormed(email) /\ ~dbOk THEN RequestErrorMsg
                  ELSE RequestMessage(email, exists, sent)
     IN /\ ret' = [ResetResponse("request", email, token, <<>>, value)
                     EXCEPT !.sent = sent, !.dbOk = dbOk]
        /\ IF exists /\ dbOk
             THEN /\ users_collection' =
                       [users_collection EXCEPT
                          ![email].reset_token_hash = Sha256(token),
                          ![email].reset_token_expiry = now + Hour]
                  /\ issued' = [issued EXCEPT ![email] = token]
           ELSE UNCHANGED <<users_collection, issued>>
  /\ UNCHANGED now
  /\ UNCHANGED retrieverVars
  /\ UNCHANGED <<agent, faiss_index, text_chunks, is_ready, conversations_collection>>

\* Whether the name hashlib is bound when line 258 reads it. "import hashlib"
\* at line 276 is inside the function, so hashlib is a local name of the whole
\* function body and the module's import does not serve it; line 258 runs
\* before line 276, so the name is unbound there.
HashlibBoundAtFirstUse == FALSE

\* Lines 260-295 of verify_and_reset_password(), which run once the token
\* hash was computed: [users, value].
VerifyWithTokenHash(token_hash, email, new_password) ==
  LET found == /\ email \in Emails
               /\ users_collection[email].exists
               /\ users_collection[email].reset_token_hash = token_hash
  IN IF ~found
       THEN [users |-> users_collection, value |-> InvalidLinkMsg]
     ELSE IF users_collection[email].reset_token_expiry < now
       THEN [users |-> users_collection, value |-> ExpiredLinkMsg]
     ELSE IF Len(new_password) < MinPasswordLen
       THEN [users |-> users_collection, value |-> PasswordTooShortMsg]
     ELSE [users |-> [users_collection EXCEPT
                        ![email].password_hash = Sha256(new_password),
                        ![email].reset_token_hash = Unset,
                        ![email].reset_token_expiry = NoExpiry],
           value |-> PasswordResetMsg]

\* verify_and_reset_password() that stores the new password without looking
\* for the token.
verify_and_reset_password_NoTokenTest(token, email, new_password) ==
  /\ users_collection' =
       IF email \in Emails /\ users_collection[email].exists
         THEN [users_collection EXCEPT ![email].password_hash = Sha256(new_password)]
       ELSE users_collection
  /\ ret' = ResetResponse("verify", email, token, new_password, PasswordResetMsg)
  /\ UNCHANGED <<now, issued>>
  /\ UNCHANGED retrieverVars
  /\ UNCHANGED <<agent, faiss_index, text_chunks, is_ready, conversations_collection>>

\* verify_and_reset_password(token, email, new_password). The first statement
\* of the try block reads hashlib; unbound, it raises UnboundLocalError and
\* the except clause at line 297 returns the error message.
verify_and_reset_password(token, email, new_password) ==
  /\ LET r == IF HashlibBoundAtFirstUse
                THEN VerifyWithTokenHash(Sha256(token), email, new_password)
              ELSE [users |-> users_collection, value |-> VerifyErrorMsg]
     IN /\ users_collection' = r.users
        /\ ret' = ResetResponse("verify", email, token, new_password, r.value)
  /\ UNCHANGED <<now, issued>>
  /\ UNCHANGED retrieverVars
  /\ UNCHANGED <<agent, faiss_index, text_chunks, is_ready, conversations_collection>>

\* datetime.utcnow() advances.
Tick ==
  /\ now < MaxTime
  /\ now' = now + 1
  /\ UNCHANGED <<ret, users_collection, issued>>
  /\ UNCHANGED retrieverVars
  /\ UNCHANGED <<agent, faiss_index, text_chunks, is_ready, conversations_collection>>

NextReset ==
  \/ \E email \in Addresses : \E token \in Tokens : \E sent, dbOk \in BOOLEAN :
       request_password_reset(email, token, sent, dbOk)
  \/ \E email \in Addresses : \E token \in Tokens : \E new_password \in Passwords :
       verify_and_reset_password(token, email, new_password)
  \/ Tick

\* Any set of registered accounts, no reset requested yet.
InitReset ==
  /\ corpus = MissingCorpus
  /\ indexFile = AbsentIndexFile
  /\ textFile = AbsentTextFile
  /\ index = None
  /\ chunks_with_content = <<>>
  /\ initialized = FALSE
  /\ pc = [p \in Procs |-> "idle"]
  /\ frame = [p \in Procs |-> NoFrame]
  /\ ret = NoRet
  /\ agent = "starting"
  /\ faiss_index = None
  /\ text_chunks = <<>>
  /\ is_ready = FALSE
  /\ users_collection \in [Emails -> {NoUser, UserOf(Rep("o", 8))}]
  /\ now = 0
  /\ issued = [e \in Emails |-> "none"]
  /\ conversations_collection = NoConversations

SpecReset == InitReset /\ [][NextReset]_vars

\* ----------------------------------------------------------------- claims

\* C1: whenever an index is held, it has as many vectors as there are chunks
\* in chunks_with_content, also after failed corpus reads, failed embedding
\* calls and rejected loads.
C1_IndexSizeMatchesChunks ==
  index.held => Len(index.vecs) = Len(chunks_with_content)

\* C2: an initialize() whose corpus read or embedding call failed leaves the
\* flag unset, and the flag is never set while no index is held.
C2_FailedInitializeStaysUninitialized ==
  /\ ret.why \in {"no_corpus", "embed_failed"} => ~initialized
  /\ initialized => index.held

\* C3: at most one build is suspended at its embedding await at any time.
C3_SingleBuildInFlight ==
  Cardinality({p \in Procs : pc[p] = "build_await"}) <= 1

\* The case of C4: the call ran initialize(), both artifact files were read,
\* the chunks read were not as many as the vectors, and load's test rejected
\* the pair.
C4_MismatchRejected ==
  /\ ret.via = "rejected"
  /\ "read_text" \in ret.eff
  /\ ret.lchunks # ret.lvecs

\* What C4 promises at the end of such an initialize(): the pair held is the
\* one rebuilt from the corpus as read, not the loaded one, the index has one
\* vector per corpus chunk, and both artifact files hold the rebuilt pair.
C4_Rebuilt ==
  /\ ret.init = "built"
  /\ index = IndexOf(EmbedAll(ret.read))
  /\ chunks_with_content = ret.read
  /\ Len(index.vecs) = Len(ret.read)
  /\ indexFile = IndexFileOf(index.vecs, FALSE)
  /\ textFile = TextFileOf(SerializeChunks(chunks_with_content))

\* C4 as stated: whenever load's test rejected the artifact and the corpus
\* file could be read and the gateway did not fail, initialize() ends rebuilt.
C4_RebuildWheneverCorpusReadable ==
  (C4_MismatchRejected /\ ret.why \notin {"no_corpus", "embed_failed"}) => C4_Rebuilt

\* C4 as amended: whenever load's test rejected the artifact, the corpus file
\* could be read and held at least one chunk, and the gateway did not fail,
\* initialize() ends rebuilt.
C4_RebuildOnMismatch ==
  (C4_MismatchRejected /\ ret.why = "none") => C4_Rebuilt

C4_Witness ==
  /\ C4_MismatchRejected
  /\ ret.lchunks >= 1
  /\ ret.why = "none"
  /\ ret.op = "initialize"
  /\ initialized

\* C5: when load rejected the artifact and the rebuild that followed failed,
\* no index is held.
C5_RejectedArtifactDiscarded ==
  (ret.via = "rejected" /\ ret.init = "build_failed") => ~index.held

\* C6: an initialize() that becomes ready by loading an index file left by a
\* save() that stopped before the text file was written holds, at every
\* ordinal, the vector of the chunk loaded at that ordinal.
C6_TornSaveNeverLoaded ==
  (ret.init = "loaded" /\ indexFile.torn) => index.vecs = EmbedAll(chunks_with_content)

\* C7: right after a build saved the pair it holds, load() of the two files
\* yields that same index and that same chunk sequence.
C7_SaveLoadRoundTrip ==
  (ret.op = "initialize" /\ ret.init = "built")
    => Loaded(indexFile, textFile) = [index |-> index, chunks |-> chunks_with_content]

\* C8: a call of initialize() made while the flag is set returns at once:
\* no file is read or written, no embedding is asked for, and the index, the
\* chunk sequence, the flag and the files are as before.
C8_InitializeIdempotent ==
  [][(initialized /\ ret'.op = "initialize" /\ pc' = pc)
       => /\ ret'.eff = {}
          /\ ret'.init = "noop"
          /\ UNCHANGED <<index, chunks_with_content, initialized,
                         indexFile, textFile, corpus>>]_vars

C8_Witness ==
  /\ ret.op = "initialize"
  /\ ret.init = "noop"
  /\ initialized
  /\ index.held

\* C9: a search() called on a retriever whose flag is set and that holds an
\* index and N >= 1 chunks, when the embedding of the query did not fail,
\* returns the join of exactly min(k, N) chunk texts.
C9_SearchReturnsMinKN ==
  (ret.op = "search" /\ ret.init = "none" /\ index.held
     /\ ret.kind # "search_error" /\ Len(chunks_with_content) >= 1)
    => /\ ret.kind = "text"
       /\ Len(ret.results) = Min(ret.k, Len(chunks_with_content))
       /\ ret.value = JoinResults(ret.results)

\* C10: search() returns the no-relevant-information sentinel only when the
\* index holds no vector.
C10_SentinelOnlyForEmptyIndex ==
  ret.kind = "sentinel" => (index.held /\ Len(index.vecs) = 0)

\* C11: an initialize() whose build found no non-empty chunk in the corpus
\* leaves the flag unset, and no index of zero vectors is held or written.
C11_EmptyCorpusNotReady ==
  /\ ret.why = "empty_corpus" => ~initialized
  /\ ~(index.held /\ index.vecs = <<>>)
  /\ ~(indexFile.st = "ok" /\ indexFile.vecs = <<>>)

\* C12: a search() made while the knowledge file holds at least one chunk
\* reports that the retriever is not initialized only when it ran the build
\* itself and the embedding call of that build failed: a build that failed
\* earlier is attempted again.
C12_SearchRetriesFailedBuild ==
  (ret.op = "search" /\ ret.kind = "not_initialized"
     /\ corpus.readable /\ Chunker(corpus.content) # <<>>)
    => ret.why = "embed_failed"

\* C13: while a build is suspended at its embedding await, the pair other
\* coroutines see is a complete one: no index with no chunks, or an index
\* that holds, at every ordinal, the vector of the chunk at that ordinal.
C13_BuildPublishesAtomically ==
  (\E p \in Procs : pc[p] = "build_await")
    => \/ ~index.held /\ chunks_with_content = <<>>
       \/ index.held /\ index.vecs = EmbedAll(chunks_with_content)

\* C14: a text file written whole by save(), next to the index file that
\* save() wrote, is read back by load() as exactly as many chunks as the
\* index file has vectors: no chunk reaches the file with the separator in it.
C14_SavedTextKeepsChunkCount ==
  (ret.init = "built" /\ indexFile.st = "ok" /\ textFile.exists)
    => Len(ParseChunks(textFile.content)) = Len(indexFile.vecs)

\* C15 as stated: a search() that returns the not-initialized error has
\* called no embedding and has left the index, the chunk sequence, the flag
\* and the files as they were.
C15_NotInitializedChangesNothing ==
  [][ret'.kind = "not_initialized"
       => /\ ret'.value = NotInitializedMsg
          /\ ret'.eff \cap {"embed_chunks", "embed_query"} = {}
          /\ UNCHANGED <<index, chunks_with_content, initialized,
                         indexFile, textFile>>]_vars

\* C15 as amended: a search() that finds no index at its index test returns
\* the fixed not-initialized string and has not asked for the embedding of
\* the query; when the flag was set at the call it has read no file, called
\* no embedding and left the index, the chunk sequence, the flag and the
\* files as they were.
C15_NotInitializedQuery ==
  [][ret'.kind = "not_initialized"
       => /\ ret'.op = "search"
          /\ ret'.value = NotInitializedMsg
          /\ ~index'.held
          /\ "embed_query" \notin ret'.eff
          /\ initialized
               => /\ ret'.eff = {}
                  /\ UNCHANGED <<index, chunks_with_content, initialized,
                                 indexFile, textFile>>]_vars

C15_Witness ==
  /\ ret.op = "search"
  /\ ret.kind = "not_initialized"
  /\ ret.init = "none"
  /\ ret.value = NotInitializedMsg
  /\ ~index.held

\* C16, the failing query itself: a search() whose query embedding failed
\* returns the fixed search-error string and leaves the index, the chunk
\* sequence, the flag, both artifact files and the knowledge file as they were.
C16_SearchFailureLeavesState ==
  [][ret'.kind = "search_error"
       => /\ ret'.value = SearchErrorMsg
          /\ ret'.results = <<>>
          /\ UNCHANGED <<index, chunks_with_content, initialized,
                         indexFile, textFile, corpus>>]_vars

\* C16: after a search() whose query embedding failed, the retriever is as
\* it was, and every search() made next, its embedding call working,
\* returns chunk text.
C16_SearchFailureConfined ==
  ret.kind = "search_error"
    => /\ ret.value = SearchErrorMsg
       /\ initialized
       /\ index.held
       /\ \A q \in Queries : \A k \in 1..MaxK :
            \A labels \in FaissSearch(index.vecs, Embed(q), k) :
              MapLabels(labels, chunks_with_content) # <<>>

\* The text s has a double newline somewhere from position i to position j.
C17_HasBreak(s, i, j) == \E m \in i..(j - 1) : s[m] = "N" /\ s[m + 1] = "N"

\* The non-blank paragraphs of s, each trimmed, as pairs <<first, last>> of
\* positions: the longest stretches that begin and end with a character that
\* is not white space and have no double newline inside.
C17_Paragraphs(s) ==
  {sg \in (1..Len(s)) \X (1..Len(s)) :
     /\ sg[1] <= sg[2]
     /\ s[sg[1]] \notin White
     /\ s[sg[2]] \notin White
     /\ ~C17_HasBreak(s, sg[1], sg[2])
     /\ \A i \in 1..(sg[1] - 1) : s[i] \notin White => C17_HasBreak(s, i, sg[1])
     /\ \A j \in (sg[2] + 1)..Len(s) : s[j] \notin White => C17_HasBreak(s, sg[2], j)}

\* C17: the chunking step returns exactly the non-blank paragraphs of the
\* text, trimmed, in the order they have in the text: as many chunks as
\* paragraphs, none empty, the paragraph with i paragraphs before it at
\* place i + 1.
C17_ChunksAreParagraphs ==
  ret.op \in {"chunk", "chunk_text"}
    => LET s == IF ret.op = "chunk" THEN corpus.content ELSE Normalize(corpus.content)
           paras == C17_Paragraphs(s)
       IN /\ Len(ret.read) = Cardinality(paras)
          /\ \A i \in 1..Len(ret.read) : ret.read[i] # <<>> /\ Strip(ret.read[i]) = ret.read[i]
          /\ \A sg \in paras :
               ret.read[1 + Cardinality({t \in paras : t[1] < sg[1]})]
                 = SubSeq(s, sg[1], sg[2])

\* Two chunks out of a text with a blank paragraph between them and white
\* space to trim.
C17_Witness ==
  /\ ret.op = "chunk"
  /\ Len(ret.read) = 2
  /\ Len(Split(corpus.content, ParagraphBreak)) = 3
  /\ \E i \in 1..Len(corpus.content) : corpus.content[i] = "_"
  /\ ret.read = <<<<"b">>, <<"a">>>>

\* The case of C18: the call ran initialize() and found at most one of the
\* two artifact files.
C18_FileAbsent == ret.found \in {"neither", "index", "text"}

\* What C18 promises at the end of such an initialize(): no artifact file was
\* read, the corpus was read and embedded, the flag is set, the index built
\* from the chunks read from the corpus is held, and both files hold the
\* fresh pair.
C18_FreshBuild ==
  /\ ret.via = "absent"
  /\ ret.init = "built"
  /\ ret.eff \cap {"read_index", "read_text"} = {}
  /\ {"read_corpus", "embed_chunks", "write_index", "write_text"} \subseteq ret.eff
  /\ initialized
  /\ ret.read # <<>>
  /\ index = IndexOf(EmbedAll(ret.read))
  /\ indexFile = IndexFileOf(EmbedAll(ret.read), FALSE)
  /\ textFile = TextFileOf(SerializeChunks(ret.read))

\* C18 as stated: with a file absent, a readable corpus and a working
\* gateway, initialize() loads nothing and ends with the fresh build saved.
C18_BuildWhenFileAbsent ==
  /\ C18_FileAbsent => ret.eff \cap {"read_index", "read_text"} = {}
  /\ (C18_FileAbsent /\ ret.why \notin {"no_corpus", "embed_failed"}) => C18_FreshBuild

\* C18 as amended: with a file absent, a readable corpus of at least one
\* chunk and a working gateway, initialize() loads nothing and ends with the
\* fresh build saved.
C18_BuildWhenFileAbsentAndChunks ==
  /\ C18_FileAbsent => ret.eff \cap {"read_index", "read_text"} = {}
  /\ (C18_FileAbsent /\ ret.why = "none") => C18_FreshBuild

\* An initialize() that found the index file without the text file and built.
C18_Witness ==
  /\ ret.op = "initialize"
  /\ ret.found = "index"
  /\ ret.why = "none"
  /\ ret.init = "built"
  /\ initialized

\* C19: an initialize() that found both artifact files and whose load passed
\* its test sets the flag and holds the loaded pair, and it has read the two
\* artifact files only: the knowledge file was not read, no chunk embedding
\* was asked for, and neither artifact file was written or changed.
C19_LoadOnlyInitialize ==
  [][(ret'.op = "initialize" /\ ret'.found = "both" /\ ret'.via # "rejected")
       => /\ ret'.init = "loaded"
          /\ ret'.eff = {"read_index", "read_text"}
          /\ initialized'
          /\ [index |-> index', chunks |-> chunks_with_content'] = Loaded(indexFile, textFile)
          /\ UNCHANGED <<indexFile, textFile, corpus>>]_vars

C19_Witness ==
  /\ ret.op = "initialize"
  /\ ret.init = "loaded"
  /\ ret.found = "both"
  /\ initialized
  /\ index.held
  /\ Len(index.vecs) = 2

\* C20: the texts a search() returns are the chunks at the labels of the
\* index query that lie in [0, number of chunks), in the order of the labels;
\* every other label, a -1 among them, adds nothing.
C20_OutOfRangeOrdinalsSkipped ==
  ret.kind \in {"text", "sentinel"}
    => LET n == Len(chunks_with_content)
           kept == SelectSeq(ret.labels, LAMBDA l : 0 <= l /\ l < n)
       IN /\ Len(ret.labels) = ret.k
          /\ ret.results = [i \in 1..Len(kept) |-> chunks_with_content[kept[i] + 1]]
          /\ ret.kind = "sentinel" <=> kept = <<>>

\* A search() for more texts than the index has vectors: a -1 was returned
\* and skipped.
C20_Witness ==
  /\ ret.kind = "text"
  /\ \E i \in 1..Len(ret.labels) : ret.labels[i] = -1
  /\ Len(ret.results) < ret.k

\* C21: a build whose embedding call returned vectors of unequal length has
\* failed when it returns: the index and both artifact files are as they
\* were, and the chunk sequence is the one held when the build began.
C21_RaggedVectorsLeaveState ==
  [][(ret'.why = "dimension_mismatch" /\ ret.why # "dimension_mismatch")
       => /\ ret'.init = "build_failed"
          /\ ret'.eff \cap {"write_index", "write_text"} = {}
          /\ UNCHANGED <<index, indexFile, textFile>>
          /\ chunks_with_content' = ret'.before]_vars

C27_SavedFilesSameBuild ==
  (indexFile.st = "ok" /\ ~indexFile.torn)
    => /\ textFile.exists
       /\ Len(indexFile.vecs) = Len(ParseChunks(textFile.content))

\* C29: GET /health reports "rag_index": "ready" only when the retriever
\* created at startup holds an index that search() can use; after a startup
\* build that failed the retriever holds none, so the report must then be
\* "not_loaded".
C29_HealthReadyOnlyWithIndex ==
  (ret.op = "health" /\ ret.kind = "ready") => index.held

\* C23: POST /upload with a .txt file whose decoded content is shorter than
\* 10 characters is answered with status 400 and detail "File content is too
\* short", and leaves faiss_index, text_chunks and is_ready unchanged.
C23_ShortUploadIs400 ==
  (/\ ret.op = "upload"
   /\ ret.file.txt /\ ret.file.utf8
   /\ Len(ret.file.content) < MinUploadLen)
    => /\ ret.status = 400
       /\ ret.detail = "File content is too short"
       /\ RagState = ret.before

\* C26: whenever is_ready is true the index has as many vectors as text_chunks
\* has chunks and both come from the same upload (the vectors are those of
\* the chunks); in particular a failed upload leaves the served pair as it was.
C26_IndexMatchesChunks ==
  is_ready => /\ faiss_index.held
              /\ Len(faiss_index.vecs) = Len(text_chunks)
              /\ faiss_index.vecs = EmbedAll(text_chunks)

\* C24: verify_and_reset_password called with the token issued by the latest
\* request_password_reset for that email, before the expiry stored with it,
\* and with a new password of at least 8 characters, sets password_hash to the
\* hash of the new password, removes reset_token_hash and reset_token_expiry,
\* and returns the success message.
C24_ValidTokenResetsPassword ==
  (/\ ret.op = "verify"
   /\ ret.email \in Emails
   /\ ret.issued[ret.email] = ret.token
   /\ ret.at < ret.before[ret.email].reset_token_expiry
   /\ Len(ret.new_password) >= MinPasswordLen)
    => /\ ret.value = PasswordResetMsg
       /\ users_collection[ret.email].password_hash = Sha256(ret.new_password)
       /\ users_collection[ret.email].reset_token_hash = Unset
       /\ users_collection[ret.email].reset_token_expiry = NoExpiry

\* C25: for a well-formed email, the string request_password_reset returns
\* when the account exists and the email was sent is the string it returns
\* in the run that differs only in that the account does not exist.
C25_MessageHidesAccount ==
  (/\ ret.op = "request"
   /\ WellFormed(ret.email)
   /\ ret.dbOk /\ ret.sent)
    => ret.value = RequestMessage(ret.email, ~ret.existed, ret.sent)

C28_LoggingFailureDoesNotFailChat ==
  (ret.op = "chat_with_agent" /\ ret.log_id \in {<<"None">>, <<"raised">>})
    => /\ ret.log_id = <<"None">>
       /\ ret.status = 200
       /\ ret.response = AgentResponse(ret.message)
       /\ Len(ret.history) = 2
       /\ ret.history[2].content = ret.response
       /\ ret.session_id \in {"s1", "uuid4"}

\* A chat whose insert raised although the database was connected, answered
\* with 200 and the agent's response.
C28_Witness ==
  /\ ret.op = "chat_with_agent"
  /\ conversations_collection.connected
  /\ ret.log_id = <<"None">>
  /\ ret.status = 200
  /\ ret.response = AgentResponse(ret.message)

====
